---- MODULE Spec2Model ----
(***************************************************************************)
(* Model of the RPA simulate service.                                      *)
(*                                                                         *)
(*   ListenerSpec : probe_listener.py, the event protocol that runs inside *)
(*                  one spawned robot process (callback thread driven by   *)
(*                  the engine, connection thread delivering continueStep).*)
(*   HostSpec     : main.py + robot_executor.py, the request handler on    *)
(*                  the event loop and the worker threads that spawn,      *)
(*                  track and clean up robot child processes.              *)
(*   RunnerSpec   : run_robot_json.py, the runner that rewrites a script   *)
(*                  with PARALLEL blocks before it hands it to the engine. *)
(***************************************************************************)
EXTENDS Integers, Sequences, FiniteSets, TLC

(* ----------------------------- bounds ---------------------------------- *)
\* nodes of a test body
MaxBody == 2
\* branches of a PARALLEL block
MaxBranches == 2
\* runs of the runner, each on the document the run before handed to the engine
MaxRuns == 2
\* opening callbacks (start_*, log_message) are offered while fewer events exist
MaxEvents == 5
\* continueStep signals the connection thread may deliver in one run
MaxSignals == 2
\* robotEvent transmissions that may raise in one run
MaxTxFail == 1
\* keyword nesting depth the engine reaches
MaxDepth == 2
\* log_message callbacks in one run
MaxLogs == 1
\* suite nesting depth the engine reaches
MaxSuites == 2

\* engine statuses handed to end_keyword in attrs["status"] ("NONE": no status key)
EngineStatuses == {"PASS", "FAIL", "SKIP"}
\* attrs["status"] of a suite or test that is still running when it ends: a failing
\* keyword has ended the process before, so what ends here has passed
SuiteStatus == "PASS"
TestStatus == "PASS"
\* executions submitted in one run of the service
MaxExec == 2
\* process ids
Keys == {"p1"}
Execs == 1..MaxExec
\* submissions of one process id whose script file is followed
MaxSubmits == 3
Submits == 1..MaxSubmits
\* readings of time.time()
Times == {0, 1}
\* text of a log line
Msgs == {"m"}

VARIABLES
    \* ---- probe_listener.py: one spawned process ----
    stepMode,        \* STEP_MODE
    seq,             \* _seq
    sio,             \* _sio: "none" (connect failed), "up", "closed" (disconnected)
    continue_event,  \* _continue_event flag
    tstack,          \* _tstack
    log_stack,       \* _log_stack
    events,          \* the EVT lines written to stdout, in order
    pc,              \* callback thread: "run", "wait", "clear", "exited", "done"
    suiteOpen,       \* engine: suites started and not ended
    inTest,          \* engine: a test is running
    kwOpen,          \* engine: keywords started and not ended
    signals,         \* continueStep signals delivered so far
    released,        \* gate waits that have returned so far
    pending,         \* a signal was delivered outside a wait since the last wait returned
    txFails,         \* transmissions that raised so far
    nLogs,           \* log_message callbacks so far
    \* ---- main.py + robot_executor.py: the host service ----
    running_processes, \* executor.running_processes: key -> execution registered (0: no entry)
    child,           \* per execution, its Popen child: "none", "alive", "term", "exited"
    returncode,      \* per execution, the child's exit code: <<>> (None) or <<code>>
    cred_dir,        \* per key, the execution that made devdata/process_<key> (0: no such directory)
    wpc,             \* per execution, where its worker thread (run_robot) stands
                     \* ("setup": called with connection_keys empty, "setup_keys": non-empty)
    wkey,            \* per execution, its process_id
    wcreds,          \* per execution, whether credentials_dir is set (not None)
    nexec,           \* executions submitted so far
    hpc,             \* the request handler on the event loop
    hop,             \* the endpoint being served: "sim", "stop"
    hkey,            \* its process_id
    hproc,           \* stop_robot's local `process`
    resp,            \* the response being sent
    \* ---- run_robot_json.py: the runner ----
    json_file,       \* the document in the file the runner was started on
    input_data,      \* the loaded document (a mutable dict)
    target,          \* the document in the file handed to the engine
    tpc,             \* the runner: "off", "loaded", then "transformed" (a temp file
                     \* is handed over) or "direct" (the file itself)
    runs,            \* runs of the runner so far
    \* ---- robot_executor.py: the script file robot_<process_id>.json ----
    local_devdata,   \* "<workspace>/devdata/": the token "W", or "L" when the
                     \* workspace is /home/ec2-user/robot
    robot_file,      \* the text of the file, a sequence of tokens
    fpc,             \* per submission: "idle", "created", then "patched" or "skipped"
    nsub             \* submissions so far

lvars == <<stepMode, seq, sio, continue_event, tstack, log_stack, events, pc,
           suiteOpen, inTest, kwOpen, signals, released, pending, txFails, nLogs>>

hvars == <<running_processes, child, returncode, cred_dir, wpc, wkey, wcreds,
           nexec, hpc, hop, hkey, hproc, resp>>

tvars == <<json_file, input_data, target, tpc, runs>>

svars == <<local_devdata, robot_file, fpc, nsub>>

vars == <<lvars, hvars, tvars, svars>>

(* ------------------------ probe_listener.py ---------------------------- *)

\* _status_success
status_success(status) == IF status = "PASS" THEN "SUCCESS" ELSE "ERROR"

\* a counter that advances only when the event was transmitted
SeqAfterTx(s, ok) == IF ok THEN s + 1 ELSE s

\* _seq += 1, done before the event is built, printed and transmitted
NextSeq(s, ok) == s + 1

\* a transmission that does not look at the handle
TxAlways == {TRUE}

\* the outcomes of `if _sio: ... _sio.emit("robotEvent", evt)`: TRUE transmitted,
\* FALSE not transmitted (no handle, or emit raised and the error was swallowed)
TxOutcomes ==
    IF sio = "up"
    THEN {TRUE} \cup (IF txFails < MaxTxFail THEN {FALSE} ELSE {})
    ELSE {FALSE}

NoEvt == [seq |-> 0, type |-> "-", raw |-> "-", status |-> "-", dur |-> <<>>,
          msg |-> <<>>, logs |-> <<>>, sent |-> FALSE]

\* emit(evt_type, **payload)
emit(evt) ==
    \E ok \in TxOutcomes :
       /\ seq' = NextSeq(seq, ok)
       /\ events' = Append(events, [evt EXCEPT !.seq = NextSeq(seq, ok), !.sent = ok])
       /\ txFails' = IF sio = "up" /\ ~ok THEN txFails + 1 ELSE txFails

\* the engine calls back only while the callback thread is running
Running == pc = "run"

\* ProbeListener.start_suite
start_suite ==
    /\ Running /\ ~inTest /\ kwOpen = 0 /\ suiteOpen < MaxSuites
    /\ Len(events) < MaxEvents
    /\ emit([NoEvt EXCEPT !.type = "RUN_START"])
    /\ suiteOpen' = suiteOpen + 1
    /\ UNCHANGED <<hvars, tvars, svars>>
    /\ UNCHANGED <<stepMode, sio, continue_event, tstack, log_stack, pc, inTest,
                   kwOpen, signals, released, pending, nLogs>>

\* ProbeListener.end_suite
end_suite ==
    /\ Running /\ ~inTest /\ kwOpen = 0 /\ suiteOpen > 0
    /\ emit([NoEvt EXCEPT !.type = "RUN_END", !.raw = SuiteStatus,
                          !.status = status_success(SuiteStatus)])
    /\ sio' = IF sio = "none" THEN "none" ELSE "closed"
    /\ suiteOpen' = suiteOpen - 1
    /\ pc' = IF suiteOpen = 1 THEN "done" ELSE pc
    /\ UNCHANGED <<hvars, tvars, svars>>
    /\ UNCHANGED <<stepMode, continue_event, tstack, log_stack, inTest, kwOpen,
                   signals, released, pending, nLogs>>

\* ProbeListener.start_test
start_test ==
    /\ Running /\ ~inTest /\ suiteOpen > 0
    /\ Len(events) < MaxEvents
    /\ emit([NoEvt EXCEPT !.type = "TEST_START"])
    /\ inTest' = TRUE
    /\ UNCHANGED <<hvars, tvars, svars>>
    /\ UNCHANGED <<stepMode, sio, continue_event, tstack, log_stack, pc, suiteOpen,
                   kwOpen, signals, released, pending, nLogs>>

\* ProbeListener.end_test
end_test ==
    /\ Running /\ inTest /\ kwOpen = 0
    /\ emit([NoEvt EXCEPT !.type = "TEST_END", !.raw = TestStatus,
                          !.status = status_success(TestStatus)])
    /\ inTest' = FALSE
    /\ UNCHANGED <<hvars, tvars, svars>>
    /\ UNCHANGED <<stepMode, sio, continue_event, tstack, log_stack, pc, suiteOpen,
                   kwOpen, signals, released, pending, nLogs>>

\* ProbeListener.start_keyword
start_keyword ==
    /\ Running /\ inTest /\ kwOpen < MaxDepth
    /\ Len(events) < MaxEvents
    /\ \E t \in Times : tstack' = Append(tstack, t)
    /\ log_stack' = Append(log_stack, <<>>)
    /\ emit([NoEvt EXCEPT !.type = "STEP_START"])
    /\ kwOpen' = kwOpen + 1
    /\ UNCHANGED <<hvars, tvars, svars>>
    /\ UNCHANGED <<stepMode, sio, continue_event, pc, suiteOpen, inTest,
                   signals, released, pending, nLogs>>

\* a frame stack that is left as it is
NoPop(s) == s

\* _tstack.pop() / _log_stack.pop()
Pop(s) == IF Len(s) > 0 THEN SubSeq(s, 1, Len(s) - 1) ELSE s

\* duration_ms = int((time.time() - t0) * 1000) if t0 else None
duration_ms(stack, t1) ==
    IF Len(stack) > 0 /\ stack[Len(stack)] # 0
    THEN <<(t1 - stack[Len(stack)]) * 1000>>
    ELSE <<>>

\* step_logs = _log_stack.pop() if _log_stack else []
step_logs(stack) == IF Len(stack) > 0 THEN stack[Len(stack)] ELSE <<>>

\* message = step_logs[0].get('message') if step_logs else None
first_message(logs) == IF Len(logs) > 0 THEN <<logs[1]>> ELSE <<>>

\* a step end that never aborts
NeverFatal(status) == FALSE

\* `if status == "FAIL":` the step end aborts the process with os._exit(1)
FatalStatus(status) == status = "FAIL"

\* a gate that is skipped in every mode
GateNever(mode) == FALSE

\* a gate that is waited on in every mode
GateAlways(mode) == TRUE

\* `if STEP_MODE == "step":` the step end goes on to _continue_event.wait()
GateApplies(mode) == mode = "step"

\* ProbeListener.end_keyword up to and including _continue_event.wait() being entered
end_keyword ==
    /\ Running /\ kwOpen > 0
    /\ \E st \in EngineStatuses, t1 \in Times :
          /\ emit([NoEvt EXCEPT !.type = "STEP_END", !.raw = st,
                                !.status = status_success(st),
                                !.dur = duration_ms(tstack, t1),
                                !.msg = first_message(step_logs(log_stack)),
                                !.logs = step_logs(log_stack)])
          /\ IF FatalStatus(st)
             THEN /\ pc' = "exited"
                  /\ sio' = IF sio = "none" THEN "none" ELSE "closed"
             ELSE /\ pc' = IF GateApplies(stepMode) THEN "wait" ELSE "run"
                  /\ sio' = sio
    /\ tstack' = Pop(tstack)
    /\ log_stack' = Pop(log_stack)
    /\ kwOpen' = kwOpen - 1
    /\ UNCHANGED <<hvars, tvars, svars>>
    /\ UNCHANGED <<stepMode, continue_event, suiteOpen, inTest, signals, released,
                   pending, nLogs>>

\* _continue_event.wait() returns: the flag is set
GateReturn ==
    /\ pc = "wait"
    /\ continue_event
    /\ pc' = "clear"
    /\ released' = released + 1
    /\ pending' = FALSE
    /\ UNCHANGED <<hvars, tvars, svars>>
    /\ UNCHANGED <<stepMode, seq, sio, continue_event, tstack, log_stack, events,
                   suiteOpen, inTest, kwOpen, signals, txFails, nLogs>>

\* a flag that is left as it is
NotCleared(flag) == flag

\* the flag after _continue_event.clear()
Cleared(flag) == FALSE

\* _continue_event.clear(), then end_keyword returns to the engine
GateClear ==
    /\ pc = "clear"
    /\ continue_event' = Cleared(continue_event)
    /\ pc' = "run"
    /\ UNCHANGED <<hvars, tvars, svars>>
    /\ UNCHANGED <<stepMode, seq, sio, tstack, log_stack, events, suiteOpen, inTest,
                   kwOpen, signals, released, pending, txFails, nLogs>>

\* a log entry appended to the buffer of every open step
buffer_in_all(stack, m) == [f \in 1..Len(stack) |-> Append(stack[f], m)]

\* log_message: if _log_stack: _log_stack[-1].append(log_entry)
buffer_log(stack, m) ==
    IF Len(stack) > 0
    THEN [stack EXCEPT ![Len(stack)] = Append(@, m)]
    ELSE stack

\* ProbeListener.log_message
log_message ==
    /\ Running /\ suiteOpen > 0
    /\ Len(events) < MaxEvents /\ nLogs < MaxLogs
    /\ \E m \in Msgs :
          /\ log_stack' = buffer_log(log_stack, m)
          /\ emit([NoEvt EXCEPT !.type = "STEP_LOG", !.msg = <<m>>])
    /\ nLogs' = nLogs + 1
    /\ UNCHANGED <<hvars, tvars, svars>>
    /\ UNCHANGED <<stepMode, sio, continue_event, tstack, pc, suiteOpen, inTest,
                   kwOpen, signals, released, pending>>

\* a handler that runs whatever the state of the connection
handler_always(s) == TRUE

\* _connect_sio: the continueStep handler is registered on the client and runs
\* on its connection thread; after a failed connect the client is dropped
handler_connected(s) == s = "up"

\* on_continue_step, run by the connection thread while the connection is up
on_continue_step ==
    /\ handler_connected(sio)
    /\ pc \in {"run", "wait", "clear"}
    /\ signals < MaxSignals
    /\ continue_event' = TRUE
    /\ signals' = signals + 1
    /\ pending' = IF pc = "wait" THEN pending ELSE TRUE
    /\ UNCHANGED <<hvars, tvars, svars>>
    /\ UNCHANGED <<stepMode, seq, sio, tstack, log_stack, events, pc, suiteOpen,
                   inTest, kwOpen, released, txFails, nLogs>>

\* module load and ProbeListener.__init__ (_connect_sio succeeded or failed)
ListenerInit ==
    /\ stepMode \in {"all", "step"}
    /\ seq = 0
    /\ sio \in {"up", "none"}
    /\ continue_event = (stepMode = "all")
    /\ tstack = <<>>
    /\ log_stack = <<>>
    /\ events = <<>>
    /\ pc = "run"
    /\ suiteOpen = 0
    /\ inTest = FALSE
    /\ kwOpen = 0
    /\ signals = 0
    /\ released = 0
    /\ pending = FALSE
    /\ txFails = 0
    /\ nLogs = 0

\* the callback thread
Callback ==
    \/ start_suite
    \/ end_suite
    \/ start_test
    \/ end_test
    \/ start_keyword
    \/ end_keyword
    \/ log_message
    \/ GateReturn
    \/ GateClear

ListenerNext ==
    \/ start_suite
    \/ end_suite
    \/ start_test
    \/ end_test
    \/ start_keyword
    \/ end_keyword
    \/ log_message
    \/ GateReturn
    \/ GateClear
    \/ on_continue_step

(* -------------------- main.py + robot_executor.py ---------------------- *)

NoResp == [op |-> "-", key |-> "-", result |-> "-", code |-> <<>>]

\* RobotExecutor.__init__ and an idle event loop
HostInit ==
    /\ running_processes = [k \in Keys |-> 0]
    /\ child = [e \in Execs |-> "none"]
    /\ returncode = [e \in Execs |-> <<>>]
    /\ cred_dir = [k \in Keys |-> 0]
    /\ wpc = [e \in Execs |-> "idle"]
    /\ wkey = [e \in Execs |-> "-"]
    /\ wcreds = [e \in Execs |-> FALSE]
    /\ nexec = 0
    /\ hpc = "idle"
    /\ hop = "-"
    /\ hkey = "-"
    /\ hproc = 0
    /\ resp = NoResp

\* process_id in self.running_processes
registered(reg, k) == reg[k] # 0

\* a removal that leaves the entry in place
keep_entry(reg, k) == reg

\* del self.running_processes[process_id]
del_entry(reg, k) == [reg EXCEPT ![k] = 0]

\* a cleanup that leaves the directory in place
keep_tree(dirs, k) == dirs

\* shutil.rmtree(devdata/process_<key>)
rmtree(dirs, k) == [dirs EXCEPT ![k] = 0]

\* ---- the request handler (one thread: the event loop) ----

\* POST /robot/simulate arrives
run_simulate_begin ==
    /\ hpc = "idle" /\ nexec < MaxExec
    /\ \E k \in Keys : hkey' = k
    /\ hop' = "sim"
    /\ hpc' = "sim_check"
    /\ UNCHANGED <<lvars, tvars, svars>>
    /\ UNCHANGED <<running_processes, child, returncode, cred_dir, wpc, wkey,
                   wcreds, nexec, hproc, resp>>

\* run_simulate: if request.process_id in executor.running_processes
run_simulate_check ==
    /\ hpc = "sim_check"
    /\ hpc' = IF registered(running_processes, hkey) THEN "st_check" ELSE "sim_create"
    /\ UNCHANGED <<lvars, tvars, svars>>
    /\ UNCHANGED <<running_processes, child, returncode, cred_dir, wpc, wkey,
                   wcreds, nexec, hop, hkey, hproc, resp>>

\* run_simulate: create_robot_file, background_tasks.add_task, the response; the
\* worker thread of the new execution starts at run_robot
run_simulate_submit ==
    /\ hpc = "sim_create"
    /\ nexec' = nexec + 1
    /\ \E start \in {"setup", "setup_keys"} : wpc' = [wpc EXCEPT ![nexec + 1] = start]
    /\ wkey' = [wkey EXCEPT ![nexec + 1] = hkey]
    /\ resp' = [op |-> "sim", key |-> hkey, result |-> "ok", code |-> <<>>]
    /\ hpc' = "respond"
    /\ UNCHANGED <<lvars, tvars, svars>>
    /\ UNCHANGED <<running_processes, child, returncode, cred_dir, wcreds, hop, hkey,
                   hproc>>

\* POST /robot/stop arrives; status = executor.get_status(process_id)
stop_endpoint_status ==
    /\ hpc = "idle"
    /\ \E k \in Keys :
          /\ hkey' = k
          /\ IF registered(running_processes, k)
             THEN /\ hpc' = "st_check"
                  /\ resp' = resp
             ELSE /\ hpc' = "respond"
                  /\ resp' = [op |-> "stop", key |-> k, result |-> "not_running",
                              code |-> <<>>]
    /\ hop' = "stop"
    /\ UNCHANGED <<lvars, tvars, svars>>
    /\ UNCHANGED <<running_processes, child, returncode, cred_dir, wpc, wkey,
                   wcreds, nexec, hproc>>

\* a Popen that raised and was swallowed: the worker goes on to register
after_popen_swallowed(ok) == "register"

\* run_robot after subprocess.Popen: on success the next statement is the
\* registration; an exception of Popen is not caught and leaves run_robot
after_popen(ok) == IF ok THEN "register" ELSE "raised"

\* a failure of setup_connections that is not swallowed
abort_on_setup_failure == "raised"

\* run_robot: except Exception around setup_connections: pass; the worker goes
\* on to build the command and to Popen
after_setup_failure == "spawn"

\* process.poll(): None while the child has not exited, else its return code
poll(e) == IF child[e] = "exited" THEN returncode[e] ELSE <<>>

\* a status that takes every resolved exit for a completed run
status_of_resolved(p) == IF p = <<>> THEN "running" ELSE "completed"

\* get_status: the status string of a poll result
status_of(p) ==
    IF p = <<>> THEN "running"
    ELSE IF p[1] = 0 THEN "completed"
    ELSE "failed"

\* GET /robot/status/{process_id}: executor.get_status(process_id); None is
\* answered as "not_running", a record is answered as it is
get_robot_status ==
    /\ hpc = "idle"
    /\ \E k \in Keys :
          /\ hkey' = k
          /\ resp' = IF ~registered(running_processes, k)
                     THEN [op |-> "status", key |-> k, result |-> "not_running",
                           code |-> <<>>]
                     ELSE [op |-> "status", key |-> k,
                           result |-> status_of(poll(running_processes[k])),
                           code |-> poll(running_processes[k])]
    /\ hop' = "status"
    /\ hpc' = "respond"
    /\ UNCHANGED <<lvars, tvars, svars>>
    /\ UNCHANGED <<running_processes, child, returncode, cred_dir, wpc, wkey,
                   wcreds, nexec, hproc>>

\* what the caller does with stop_robot's result r ("true", "false", or an
\* exception: "raised" a KeyError of the registry, "kill_failed" the error of
\* process.kill()): run_simulate ignores the value and turns an exception into
\* a 500; the stop endpoint answers success on True and 500 otherwise
StopReturns(r) ==
    IF hop = "sim"
    THEN IF r \in {"raised", "kill_failed"}
         THEN /\ hpc' = "respond"
              /\ resp' = [op |-> "sim", key |-> hkey,
                          result |-> IF r = "raised" THEN "error" ELSE "kill_error",
                          code |-> <<>>]
         ELSE /\ hpc' = "sim_create"
              /\ resp' = resp
    ELSE /\ hpc' = "respond"
         /\ resp' = [op |-> "stop", key |-> hkey,
                     result |-> CASE r = "true" -> "ok"
                                  [] r = "false" -> "failed"
                                  [] r = "kill_failed" -> "kill_error"
                                  [] OTHER -> "error",
                     code |-> <<>>]

\* stop_robot: if process_id not in self.running_processes: return False
stop_robot_check ==
    /\ hpc = "st_check"
    /\ IF registered(running_processes, hkey)
       THEN /\ hpc' = "st_read"
            /\ UNCHANGED resp
       ELSE StopReturns("false")
    /\ UNCHANGED <<lvars, tvars, svars>>
    /\ UNCHANGED <<running_processes, child, returncode, cred_dir, wpc, wkey,
                   wcreds, nexec, hop, hkey, hproc>>

\* stop_robot: proc_info = self.running_processes[process_id]; process = proc_info["process"]
stop_robot_read ==
    /\ hpc = "st_read"
    /\ IF registered(running_processes, hkey)
       THEN /\ hproc' = running_processes[hkey]
            /\ hpc' = "st_term"
            /\ UNCHANGED resp
       ELSE /\ StopReturns("raised")
            /\ hproc' = hproc
    /\ UNCHANGED <<lvars, tvars, svars>>
    /\ UNCHANGED <<running_processes, child, returncode, cred_dir, wpc, wkey,
                   wcreds, nexec, hop, hkey>>

\* stop_robot: process.terminate()
stop_robot_terminate ==
    /\ hpc = "st_term"
    /\ child' = IF child[hproc] = "alive" THEN [child EXCEPT ![hproc] = "term"] ELSE child
    /\ hpc' = "st_wait"
    /\ UNCHANGED <<lvars, tvars, svars>>
    /\ UNCHANGED <<running_processes, returncode, cred_dir, wpc, wkey, wcreds,
                   nexec, hop, hkey, hproc, resp>>

\* an error of process.kill() that is swallowed
kill_error_ignored(ok) == "true"

\* stop_robot: process.kill() in the except clause: its own exception is not
\* caught and leaves stop_robot
kill_outcome(ok) == IF ok THEN "true" ELSE "kill_failed"

\* stop_robot: process.wait(timeout=5) returns, or times out and process.kill()
stop_robot_wait ==
    /\ hpc = "st_wait"
    /\ IF child[hproc] = "exited"
       THEN /\ UNCHANGED <<child, returncode, resp>>
            /\ hpc' = "st_check2"
       ELSE \E ok \in BOOLEAN :
               /\ IF ok
                  THEN /\ child' = [child EXCEPT ![hproc] = "exited"]
                       /\ returncode' = [returncode EXCEPT ![hproc] = <<-9>>]
                  ELSE UNCHANGED <<child, returncode>>
               /\ IF kill_outcome(ok) = "true"
                  THEN /\ hpc' = "st_check2"
                       /\ resp' = resp
                  ELSE StopReturns(kill_outcome(ok))
    /\ UNCHANGED <<lvars, tvars, svars>>
    /\ UNCHANGED <<running_processes, cred_dir, wpc, wkey, wcreds, nexec, hop,
                   hkey, hproc>>

\* stop_robot: if process_id in self.running_processes (else: return True)
stop_robot_check2 ==
    /\ hpc = "st_check2"
    /\ IF registered(running_processes, hkey)
       THEN /\ hpc' = "st_del"
            /\ UNCHANGED resp
       ELSE StopReturns("true")
    /\ UNCHANGED <<lvars, tvars, svars>>
    /\ UNCHANGED <<running_processes, child, returncode, cred_dir, wpc, wkey,
                   wcreds, nexec, hop, hkey, hproc>>

\* stop_robot: del self.running_processes[process_id]; return True
stop_robot_del ==
    /\ hpc = "st_del"
    /\ IF registered(running_processes, hkey)
       THEN /\ running_processes' = del_entry(running_processes, hkey)
            /\ StopReturns("true")
       ELSE /\ running_processes' = running_processes
            /\ StopReturns("raised")
    /\ UNCHANGED <<lvars, tvars, svars>>
    /\ UNCHANGED <<child, returncode, cred_dir, wpc, wkey, wcreds, nexec, hop,
                   hkey, hproc>>

\* the response leaves; the handler's locals are gone and the loop is idle again
respond ==
    /\ hpc = "respond"
    /\ hpc' = "idle"
    /\ hop' = "-"
    /\ hkey' = "-"
    /\ hproc' = 0
    /\ resp' = NoResp
    /\ UNCHANGED <<lvars, tvars, svars>>
    /\ UNCHANGED <<running_processes, child, returncode, cred_dir, wpc, wkey, wcreds,
                   nexec>>

\* ---- the worker thread of execution e: RobotExecutor.run_robot ----

\* run_robot starts on a worker thread; setup_connections: rmtree of an existing
\* process dir, mkdir, and the return for an empty connection_keys
setup_connections_dir(e) ==
    /\ wpc[e] \in {"setup", "setup_keys"}
    \* a background task starts after the response of its request has been sent
    /\ ~(hpc = "respond" /\ resp.op = "sim" /\ e = nexec)
    /\ cred_dir' = [rmtree(cred_dir, wkey[e]) EXCEPT ![wkey[e]] = e]
    /\ IF wpc[e] = "setup_keys"
       THEN /\ wpc' = [wpc EXCEPT ![e] = "fetch"]
            /\ wcreds' = wcreds
       ELSE /\ wpc' = [wpc EXCEPT ![e] = "spawn"]
            /\ wcreds' = [wcreds EXCEPT ![e] = TRUE]
    /\ UNCHANGED <<lvars, tvars, svars>>
    /\ UNCHANGED <<running_processes, child, returncode, wkey, nexec, hpc, hop,
                   hkey, hproc, resp>>

\* setup_connections: the credential fetch and the files written, or the failure
\* path (rmtree of the process dir, raise) that run_robot swallows
setup_connections_fetch(e) ==
    /\ wpc[e] = "fetch"
    /\ \E ok \in BOOLEAN :
          IF ok
          THEN /\ wcreds' = [wcreds EXCEPT ![e] = TRUE]
               /\ cred_dir' = cred_dir
               /\ wpc' = [wpc EXCEPT ![e] = "spawn"]
          ELSE /\ wcreds' = wcreds
               /\ cred_dir' = rmtree(cred_dir, wkey[e])
               /\ wpc' = [wpc EXCEPT ![e] = after_setup_failure]
    /\ UNCHANGED <<lvars, tvars, svars>>
    /\ UNCHANGED <<running_processes, child, returncode, wkey, nexec, hpc, hop,
                   hkey, hproc, resp>>

\* run_robot: subprocess.Popen(cmd, ...) starts the child, or raises
run_robot_spawn(e) ==
    /\ wpc[e] = "spawn"
    /\ \E ok \in BOOLEAN :
          IF ok
          THEN /\ child' = [child EXCEPT ![e] = "alive"]
               /\ wpc' = [wpc EXCEPT ![e] = after_popen(TRUE)]
          ELSE /\ child' = child
               /\ wpc' = [wpc EXCEPT ![e] = after_popen(FALSE)]
    /\ UNCHANGED <<lvars, tvars, svars>>
    /\ UNCHANGED <<running_processes, returncode, cred_dir, wkey, wcreds, nexec,
                   hpc, hop, hkey, hproc, resp>>

\* run_robot: self.running_processes[process_id] = {...}
run_robot_register(e) ==
    /\ wpc[e] = "register"
    /\ running_processes' = [running_processes EXCEPT ![wkey[e]] = e]
    /\ wpc' = [wpc EXCEPT ![e] = "wait"]
    /\ UNCHANGED <<lvars, tvars, svars>>
    /\ UNCHANGED <<child, returncode, cred_dir, wkey, wcreds, nexec, hpc, hop,
                   hkey, hproc, resp>>

\* run_robot: the stdout loop ends and process.wait() returns
run_robot_wait(e) ==
    /\ wpc[e] = "wait"
    /\ child[e] = "exited"
    /\ wpc' = [wpc EXCEPT ![e] = "cleanup"]
    /\ UNCHANGED <<lvars, tvars, svars>>
    /\ UNCHANGED <<running_processes, child, returncode, cred_dir, wkey, wcreds,
                   nexec, hpc, hop, hkey, hproc, resp>>

\* run_robot: if credentials_dir and os.path.exists(credentials_dir): shutil.rmtree
run_robot_cleanup(e) ==
    /\ wpc[e] = "cleanup"
    /\ cred_dir' = IF wcreds[e] /\ cred_dir[wkey[e]] # 0
                   THEN rmtree(cred_dir, wkey[e])
                   ELSE cred_dir
    /\ wcreds' = [wcreds EXCEPT ![e] = FALSE]   \* credentials_dir is not read again
    /\ wpc' = [wpc EXCEPT ![e] = "dereg"]
    /\ UNCHANGED <<lvars, tvars, svars>>
    /\ UNCHANGED <<running_processes, child, returncode, wkey, nexec,
                   hpc, hop, hkey, hproc, resp>>

\* run_robot: if process_id in self.running_processes (else: return return_code)
run_robot_dereg_check(e) ==
    /\ wpc[e] = "dereg"
    /\ wpc' = [wpc EXCEPT ![e] = IF registered(running_processes, wkey[e])
                                 THEN "del" ELSE "done"]
    /\ UNCHANGED <<lvars, tvars, svars>>
    /\ UNCHANGED <<running_processes, child, returncode, cred_dir, wkey, wcreds,
                   nexec, hpc, hop, hkey, hproc, resp>>

\* run_robot: del self.running_processes[process_id]; return return_code
run_robot_dereg_del(e) ==
    /\ wpc[e] = "del"
    /\ IF registered(running_processes, wkey[e])
       THEN /\ running_processes' = del_entry(running_processes, wkey[e])
            /\ wpc' = [wpc EXCEPT ![e] = "done"]
       ELSE /\ running_processes' = running_processes
            /\ wpc' = [wpc EXCEPT ![e] = "raised"]
    /\ UNCHANGED <<lvars, tvars, svars>>
    /\ UNCHANGED <<child, returncode, cred_dir, wkey, wcreds, nexec, hpc, hop,
                   hkey, hproc, resp>>

\* ---- the child process of execution e ----

\* the robot run ends by itself (0), by a failing run or the listener's
\* os._exit(1) (1), or on the SIGTERM sent by terminate() (-15)
child_exit(e) ==
    /\ child[e] \in {"alive", "term"}
    /\ \E c \in (IF child[e] = "term" THEN {-15} ELSE {0, 1}) :
          returncode' = [returncode EXCEPT ![e] = <<c>>]
    /\ child' = [child EXCEPT ![e] = "exited"]
    /\ UNCHANGED <<lvars, tvars, svars>>
    /\ UNCHANGED <<running_processes, cred_dir, wpc, wkey, wcreds, nexec, hpc,
                   hop, hkey, hproc, resp>>

\* the listener process is not part of the host's state
ListenerIdle ==
    /\ stepMode = "all" /\ seq = 0 /\ sio = "none" /\ continue_event = TRUE
    /\ tstack = <<>> /\ log_stack = <<>> /\ events = <<>> /\ pc = "run"
    /\ suiteOpen = 0 /\ inTest = FALSE /\ kwOpen = 0 /\ signals = 0 /\ released = 0
    /\ pending = FALSE /\ txFails = 0 /\ nLogs = 0

HostNext ==
    \/ run_simulate_begin
    \/ run_simulate_check
    \/ run_simulate_submit
    \/ stop_endpoint_status
    \/ get_robot_status
    \/ stop_robot_check
    \/ stop_robot_read
    \/ stop_robot_terminate
    \/ stop_robot_wait
    \/ stop_robot_check2
    \/ stop_robot_del
    \/ respond
    \/ \E e \in Execs : setup_connections_dir(e)
    \/ \E e \in Execs : setup_connections_fetch(e)
    \/ \E e \in Execs : run_robot_spawn(e)
    \/ \E e \in Execs : run_robot_register(e)
    \/ \E e \in Execs : run_robot_wait(e)
    \/ \E e \in Execs : run_robot_cleanup(e)
    \/ \E e \in Execs : run_robot_dereg_check(e)
    \/ \E e \in Execs : run_robot_dereg_del(e)
    \/ \E e \in Execs : child_exit(e)

(* -------------------------- run_robot_json.py --------------------------- *)

\* Strings the escaping looks into (keyword arguments, assigned variables,
\* variable names and values) are sequences of characters; names of keywords,
\* tests, libraries and node types are taken to hold no sigil, quote or backslash.
T_plain == <<"a">>
T_var == <<"$", "{", "x", "}">>
T_list == <<"@", "{", "y", "}">>
T_bs == <<"\\", "$", "{", "x", "}">>
T_quote == <<"\"", "&", "{", "z", "}">>
T_empty_var == <<"$", "{", "}">>

NoDoc == [name |-> "-", imports |-> <<>>, variables |-> <<>>, tests |-> <<>>]

\* a node of a body; a key the node does not have is the empty sequence
Node(type, name, args, assign, body, branches) ==
    [type |-> type, name |-> name, args |-> args, assign |-> assign,
     body |-> body, branches |-> branches]

Kw_log == Node("keyword", "Log", <<T_plain>>, <<>>, <<>>, <<>>)
Kw_upper == Node("KEYWORD", "Log", <<T_var>>, <<>>, <<>>, <<>>)
Kw_assign == Node("keyword", "Get", <<T_bs, T_quote>>, <<T_list>>, <<>>, <<>>)
NestedBlock == Node("PARALLEL", "", <<>>, <<>>, <<>>, <<[body |-> <<Kw_upper>>]>>)

\* a loop whose body holds a PARALLEL block, and one whose body does not
For_block == Node("FOR", "", <<>>, <<T_var>>, <<NestedBlock>>, <<>>)
For_plain == Node("FOR", "", <<>>, <<T_var>>, <<Kw_log>>, <<>>)

PlainNodes == {Kw_log, Kw_upper, Kw_assign, For_block, For_plain}

\* the bodies a branch is drawn from
BranchBodies == {<<Kw_upper>>, <<Kw_assign, NestedBlock>>}

\* PARALLEL blocks with up to MaxBranches branches
Blocks ==
    UNION {{Node("PARALLEL", "", <<>>, <<>>, <<>>, [i \in 1..n |-> [body |-> bs[i]]]) :
               bs \in [1..n -> BranchBodies]} : n \in 0..MaxBranches}

\* test bodies of up to MaxBody nodes
Bodies == UNION {[1..n -> PlainNodes \cup Blocks] : n \in 0..MaxBody}

Lib(name) == [type |-> "LIBRARY", name |-> name]

ImportLists ==
    {<<>>, <<Lib("RPA.Parallel")>>, <<Lib("RPA.Parallel"), Lib("RPA.Parallel")>>,
     <<Lib("RPA.Cloud.Google")>>, <<Lib("RPA.Browser"), Lib("RPA.Parallel")>>}

VarLists ==
    {<<>>,
     <<[name |-> T_var, value |-> <<T_plain>>], [name |-> T_empty_var, value |-> <<>>],
       [name |-> T_list, value |-> <<T_plain, T_var>>]>>}

\* the documents the runner is started on: one suite with one test
Docs ==
    {[name |-> "Main", imports |-> i, variables |-> v,
      tests |-> <<[name |-> "T", body |-> b]>>] :
        i \in ImportLists, v \in VarLists, b \in Bodies}

\* the --listener argument of the run
listener == "probe_listener.ProbeListener"

\* has_parallel_blocks
has_parallel_blocks(data) ==
    \E t \in 1..Len(data.tests) :
       \E n \in 1..Len(data.tests[t].body) : data.tests[t].body[n].type = "PARALLEL"

\* json.dumps of a string, without the enclosing quotes: " and \ get a backslash
dumps_text(t) ==
    LET F[i \in 0..Len(t)] ==
           IF i = 0 THEN <<>>
           ELSE F[i - 1] \o (IF t[i] \in {"\"", "\\"} THEN <<"\\", t[i]>> ELSE <<t[i]>>)
    IN  F[Len(t)]

RECURSIVE replace(_, _)
\* str.replace(c + "{", "\\" + c + "{")
replace(t, c) ==
    IF Len(t) < 2 THEN t
    ELSE IF t[1] = c /\ t[2] = "{"
         THEN <<"\\", c, "{">> \o replace(SubSeq(t, 3, Len(t)), c)
         ELSE <<t[1]>> \o replace(Tail(t), c)

\* a payload that takes the strings as they are
not_escaped(t) == t

\* json.dumps(...).replace("${", "\\${").replace("@{", "\\@{").replace("&{", "\\&{")
\* on one string of the serialised value: the characters json.dumps puts around
\* strings (quotes, brackets, braces, colons, commas) never stand between a sigil
\* and a "{" of a string, so the text of the payload is the structure with every
\* string replaced by this
escaped(t) == replace(replace(replace(dumps_text(t), "$"), "@"), "&")

RECURSIVE payload_body(_)
\* the serialised form of a list of nodes
payload_body(body) ==
    [n \in 1..Len(body) |->
        [type |-> body[n].type, name |-> body[n].name,
         args |-> [a \in 1..Len(body[n].args) |-> escaped(body[n].args[a])],
         assign |-> [a \in 1..Len(body[n].assign) |-> escaped(body[n].assign[a])],
         body |-> payload_body(body[n].body),
         branches |-> [b \in 1..Len(body[n].branches) |->
                          [body |-> payload_body(body[n].branches[b].body)]]]]

\* create_run_parallel_keyword: branches_data, serialised
branches_json(block) ==
    [i \in 1..Len(block.branches) |->
        [name |-> <<"Branch_", i>>, body |-> payload_body(block.branches[i].body)]]

\* create_run_parallel_keyword: vars_data, serialised (a one-element value is
\* unwrapped to its element)
variables_json(variables) ==
    [v \in 1..Len(variables) |->
        [name |-> escaped(variables[v].name),
         value |-> IF Len(variables[v].value) = 1
                   THEN escaped(variables[v].value[1])
                   ELSE [x \in 1..Len(variables[v].value) |->
                            escaped(variables[v].value[x])]]]

\* create_run_parallel_keyword
create_run_parallel_keyword(block, variables, lst, imports) ==
    [type |-> "keyword", name |-> "Run Parallel",
     args |-> <<branches_json(block), variables_json(variables), lst, imports>>,
     assign |-> <<>>, body |-> <<>>, branches |-> <<>>]

\* transform_body, the else branch: {"type": "keyword", "name": ..., "args": ...}
regular_keyword(item) ==
    [type |-> "keyword", name |-> item.name, args |-> item.args,
     assign |-> <<>>, body |-> <<>>, branches |-> <<>>]

\* transform_body
transform_body(body, variables, lst, imports) ==
    [n \in 1..Len(body) |->
        IF body[n].type = "PARALLEL"
        THEN create_run_parallel_keyword(body[n], variables, lst, imports)
        ELSE regular_keyword(body[n])]

\* transform_json: for imp in imports: RPA.Cloud.Google is renamed; the import
\* dicts are the ones of the input
renamed(imports) ==
    [i \in 1..Len(imports) |->
        IF imports[i].name = "RPA.Cloud.Google"
        THEN [imports[i] EXCEPT !.name = "RPA.Google"]
        ELSE imports[i]]

\* transform_json: if "RPA.Parallel" not in library_names: imports.append(...)
with_parallel(imports) ==
    IF \E i \in 1..Len(imports) : imports[i].name = "RPA.Parallel"
    THEN imports
    ELSE Append(imports, Lib("RPA.Parallel"))

\* transform_json: the variables with a name other than "${}"
valid_variables(variables) ==
    SelectSeq(variables, LAMBDA v : v.name # <<>> /\ v.name # T_empty_var)

\* transform_json, the returned document
transform_json(data, lst) ==
    LET imports == with_parallel(renamed(data.imports))
        variables == valid_variables(data.variables)
    IN  [name |-> IF data.name = "" THEN "Main" ELSE data.name,
         imports |-> imports,
         variables |-> variables,
         tests |-> [t \in 1..Len(data.tests) |->
                       [name |-> data.tests[t].name,
                        body |-> transform_body(data.tests[t].body, variables,
                                                lst, imports)]]]

\* run_robot with PARALLEL blocks detected: the transformed document is written
\* to a temp file and that file is handed to the engine; transform_json has
\* renamed the imports of the loaded document in place
run_robot_transformed ==
    /\ tpc = "loaded"
    /\ has_parallel_blocks(input_data)
    /\ target' = transform_json(input_data, listener)
    /\ input_data' = [input_data EXCEPT !.imports = renamed(@)]
    /\ tpc' = "transformed"
    /\ UNCHANGED <<lvars, hvars, svars>>
    /\ UNCHANGED <<json_file, runs>>

\* run_robot with no PARALLEL block detected: the file itself is handed over
run_robot_direct ==
    /\ tpc = "loaded"
    /\ ~has_parallel_blocks(input_data)
    /\ target' = json_file
    /\ tpc' = "direct"
    /\ UNCHANGED <<lvars, hvars, svars>>
    /\ UNCHANGED <<json_file, input_data, runs>>

\* main/run_robot: the runner is started on a file that holds the document the
\* run before handed to the engine; json.load
run_robot_load ==
    /\ tpc \in {"transformed", "direct"}
    /\ runs < MaxRuns
    /\ json_file' = target
    /\ input_data' = target
    /\ target' = NoDoc
    /\ runs' = runs + 1
    /\ tpc' = "loaded"
    /\ UNCHANGED <<lvars, hvars, svars>>

\* the runner is not part of this run
RunnerIdle ==
    /\ json_file = NoDoc /\ input_data = NoDoc /\ target = NoDoc
    /\ tpc = "off" /\ runs = 0

\* main/run_robot: the file exists and has been loaded
RunnerInit ==
    /\ json_file \in Docs
    /\ input_data = json_file
    /\ target = NoDoc
    /\ tpc = "loaded"
    /\ runs = 1

RunnerNext ==
    \/ run_robot_transformed
    \/ run_robot_direct
    \/ run_robot_load

(* ------------- robot_executor.py: the script file's paths -------------- *)

\* The text of a script is a sequence of tokens: "L" is the prefix
\* "/home/ec2-user/robot/devdata/", "W" is "<workspace>/devdata/" of a workspace
\* elsewhere, "P" is "process_<process_id>/", "f" and "g" are file names and "x"
\* is any other text.

\* linux_path_prefix
linux_path_prefix == "L"

\* robot_code of a request
RobotCodes ==
    { <<"x">>, <<"L", "f">>, <<"x", "L", "f", "L", "g">>, <<"W", "f">> }

RECURSIVE str_replace(_, _, _)
\* str.replace(old, new) for a one-token old: every occurrence, left to right,
\* the inserted text is not searched again
str_replace(t, old, new) ==
    IF Len(t) = 0 THEN t
    ELSE (IF t[1] = old THEN new ELSE <<t[1]>>) \o str_replace(Tail(t), old, new)

\* create_robot_file: replace_path(text)
replace_path(text) == str_replace(text, linux_path_prefix, <<local_devdata>>)

\* run_robot: new_path = credentials_dir + "/", the directory setup_connections
\* made: <workspace>/devdata/process_<process_id>/
new_path == <<local_devdata, "P">>

\* run_robot: content.replace(linux_path_prefix, new_path), then
\* .replace(default_local_devdata + "/", new_path)
patched(content) ==
    str_replace(str_replace(content, linux_path_prefix, new_path),
                local_devdata, new_path)

\* run_simulate on the handler thread: create_robot_file writes the patched
\* robot_code to robot_<process_id>.json
create_robot_file ==
    /\ nsub < MaxSubmits
    /\ nsub' = nsub + 1
    /\ \E robot_code \in RobotCodes : robot_file' = replace_path(robot_code)
    /\ fpc' = [fpc EXCEPT ![nsub + 1] = "created"]
    /\ UNCHANGED local_devdata
    /\ UNCHANGED <<lvars, hvars, tvars>>

\* run_robot on the worker thread of submission e, after setup_connections:
\* if credentials_dir and os.path.exists(robot_file): read, replace, write
run_robot_patch(e) ==
    /\ fpc[e] = "created"
    /\ \E credentials_dir \in BOOLEAN :
          IF credentials_dir
          THEN /\ robot_file' = patched(robot_file)
               /\ fpc' = [fpc EXCEPT ![e] = "patched"]
          ELSE /\ robot_file' = robot_file
               /\ fpc' = [fpc EXCEPT ![e] = "skipped"]
    /\ UNCHANGED <<local_devdata, nsub>>
    /\ UNCHANGED <<lvars, hvars, tvars>>

\* no script file is followed
ScriptIdle ==
    /\ local_devdata = "W" /\ robot_file = <<>>
    /\ fpc = [e \in Submits |-> "idle"] /\ nsub = 0

\* RobotExecutor.__init__: the workspace is the project directory, wherever the
\* service is installed
ScriptInit ==
    /\ local_devdata \in {"W", linux_path_prefix}
    /\ robot_file = <<>>
    /\ fpc = [e \in Submits |-> "idle"]
    /\ nsub = 0

ScriptNext ==
    \/ create_robot_file
    \/ \E e \in Submits : run_robot_patch(e)

(* --------------------------- specifications ---------------------------- *)

\* a robot process has been spawned and its listener constructed
Init == ListenerInit /\ HostInit /\ RunnerIdle /\ ScriptIdle

\* the service has started; no robot process is looked into
HostStart == ListenerIdle /\ HostInit /\ RunnerIdle /\ ScriptIdle

\* one spawned robot process and its listener
ListenerSpec == Init /\ [][ListenerNext]_vars

\* the engine keeps calling back and a returned wait goes on: the callback thread is
\* scheduled whenever it can take a step
ListenerFairSpec == ListenerSpec /\ WF_vars(Callback)

\* the host service: request handler, worker threads, child processes
HostSpec == HostStart /\ [][HostNext]_vars

\* the runner has been started on a script file
RunnerStart == ListenerIdle /\ HostInit /\ RunnerInit /\ ScriptIdle

\* the runner of run_robot_json.py
RunnerSpec == RunnerStart /\ [][RunnerNext]_vars

\* the service has been constructed; its script files are followed
ScriptStart == ListenerIdle /\ HostInit /\ RunnerIdle /\ ScriptInit

\* the script file of one process id under submissions and spawn rewrites
ScriptSpec == ScriptStart /\ [][ScriptNext]_vars

(* ------------------- properties of the event protocol ------------------ *)

\* the step ends in the event stream whose engine status is not FAIL
NonFailEnds ==
    Cardinality({i \in 1..Len(events) :
                    events[i].type = "STEP_END" /\ events[i].raw # "FAIL"})

LastType == IF Len(events) = 0 THEN "-" ELSE events[Len(events)].type

\* C2: the n-th event written by emit carries seq = n (starts at 1, no gap, no
\* reuse), whatever callbacks produced the events and whether or not each
\* transmission succeeded.
C2_SeqIsPosition ==
    /\ seq = Len(events)
    /\ \A i \in 1..Len(events) : events[i].seq = i

\* a run where the first transmission raised and later events were still numbered
C2_Witness ==
    /\ sio = "up" /\ txFails = 1
    /\ Len(events) >= 3
    /\ ~events[1].sent /\ events[3].sent

\* C3: a STEP_END whose engine status is FAIL is the last event of the process:
\* nothing is emitted after it (no STEP_START, STEP_LOG, STEP_END of an enclosing
\* step, TEST_END, RUN_END), the gate is not waited on and the process has exited.
C3_FailEndIsLast ==
    \A i \in 1..Len(events) :
       (events[i].type = "STEP_END" /\ events[i].raw = "FAIL")
          => /\ i = Len(events)
             /\ pc = "exited"
             /\ ~ENABLED Callback

\* a nested step failed under step mode while its enclosing step was still open
C3_Witness ==
    /\ stepMode = "step"
    /\ pc = "exited"
    /\ kwOpen >= 1
    /\ LastType = "STEP_END"
    /\ events[Len(events)].raw = "FAIL"

\* C4: under step mode every non-failing STEP_END is followed by a gate wait; while
\* the wait has not returned no event is emitted, the wait returns only with the
\* continuation flag set (a signal has been delivered), and with the flag set the
\* callback thread can go on.
C4_GateBlocksUntilSignal ==
    stepMode = "step" =>
       /\ NonFailEnds = released + (IF pc = "wait" THEN 1 ELSE 0)
       /\ pc = "wait" => /\ LastType = "STEP_END"
                         /\ (ENABLED Callback) <=> continue_event
       /\ released > 0 => signals > 0

\* the gate of step 1 was released by a signal and step 2 has started
C4_Witness ==
    /\ stepMode = "step"
    /\ released = 1 /\ signals = 1
    /\ pc = "run"
    /\ LastType = "STEP_START"
    /\ NonFailEnds = 1

\* C5: at every point of a run the number of gate waits that have returned is at
\* most the number of continuation signals delivered so far.
C5_OneSignalOneAdvance == released <= signals

\* two signals arrived before the first step ended; the first wait returned, the
\* second wait is blocked
C5_Witness ==
    /\ stepMode = "step"
    /\ signals = 2 /\ released = 1
    /\ NonFailEnds = 2
    /\ pc = "wait" /\ ~continue_event

\* C6: under step mode a signal delivered while the callback thread is not inside
\* a gate wait is honored by the next gate wait: that wait returns without
\* another signal.
C6_SignalOutsideWaitHonored ==
    (stepMode = "step" /\ pc = "wait" /\ pending) => continue_event

\* C7: under step mode "all" the gate never blocks: the callback thread is never
\* in a wait, every callback of the script is taken without any signal, and the
\* run ends with RUN_END.
C7_AllModeNeverBlocks ==
    stepMode = "all" =>
       /\ pc \notin {"wait", "clear"}
       /\ released = 0
       /\ pc = "run" => ENABLED Callback
       /\ pc = "done" => LastType = "RUN_END"

\* a script of two passing steps ran to RUN_END with no signal delivered
C7_Witness ==
    /\ stepMode = "all"
    /\ signals = 0
    /\ pc = "done"
    /\ NonFailEnds = 2
    /\ LastType = "RUN_END"

\* the number of steps open after the i-th event
Depth(i) ==
    Cardinality({x \in 1..i : events[x].type = "STEP_START"})
       - Cardinality({x \in 1..i : events[x].type = "STEP_END"})

RECURSIVE LoggedIn(_, _)
\* the messages, in the order of emission, that were logged among the first j
\* events while one step was the innermost open one: the step that has n steps
\* open inside it after the j-th event (walking back, a STEP_END enters a closed
\* nested step and a STEP_START leaves one; the step's own STEP_START ends the walk)
LoggedIn(j, n) ==
    IF j = 0 THEN <<>>
    ELSE CASE events[j].type = "STEP_START" ->
                 IF n = 0 THEN <<>> ELSE LoggedIn(j - 1, n - 1)
           [] events[j].type = "STEP_END" -> LoggedIn(j - 1, n + 1)
           [] events[j].type = "STEP_LOG" /\ n = 0 -> LoggedIn(j - 1, 0) \o events[j].msg
           [] OTHER -> LoggedIn(j - 1, n)

C20_DegradedStillEmits ==
    sio = "none" =>
       /\ seq = Len(events)
       /\ \A i \in 1..Len(events) : events[i].seq = i /\ ~events[i].sent
       /\ pc = "run" => ENABLED Callback
       /\ pc = "done" => LastType = "RUN_END"
       /\ pc = "exited" => LastType = "STEP_END" /\ events[Len(events)].raw = "FAIL"

\* a degraded run of one logging step went through to RUN_END
C20_Witness ==
    /\ sio = "none" /\ stepMode = "all"
    /\ pc = "done"
    /\ Len(events) >= 7
    /\ \E i \in 1..Len(events) : events[i].type = "STEP_LOG"

\* C21: once RUN_END has been emitted and the connection disconnected nothing
\* more is emitted: a RUN_END after which the connection is closed is the last
\* event, also when the suite that ended is an inner one.
C21_RunEndIsTerminal ==
    \A i \in 1..Len(events) :
       (events[i].type = "RUN_END" /\ sio = "closed") => i = Len(events)

\* C22: every STEP_END that carries status ERROR (engine status other than
\* PASS) is the last event and the process has exited.
C22_ErrorEndIsFatal ==
    \A i \in 1..Len(events) :
       (events[i].type = "STEP_END" /\ events[i].status = "ERROR")
          => /\ i = Len(events)
             /\ pc = "exited"

\* C26: the timestamp stack and the log-buffer stack have the same length, the
\* number of keywords the engine has started and not ended; they are empty when
\* no keyword is open.
C26_FrameDepthIsNesting ==
    /\ Len(tstack) = kwOpen
    /\ Len(log_stack) = kwOpen
    /\ kwOpen = 0 => tstack = <<>> /\ log_stack = <<>>

\* a nested step has ended and its enclosing step is still open
C26_Witness ==
    /\ kwOpen = 1 /\ Len(tstack) = 1 /\ Len(log_stack) = 1
    /\ LastType = "STEP_END"
    /\ Cardinality({i \in 1..Len(events) : events[i].type = "STEP_START"}) = 2

\* C27: every STEP_END (each has its matching start here) carries a duration
\* that is a number and not negative.
C27_DurationNonNegative ==
    \A i \in 1..Len(events) :
       events[i].type = "STEP_END" =>
          /\ events[i].dur # <<>>
          /\ events[i].dur[1] >= 0

\* C30: with no connection handle no continuation signal is ever delivered;
\* under step mode the first step end that is not a FAIL enters the gate wait
\* and nothing can happen after it (no wait returns, no further event, no
\* RUN_END); under mode "all" the degraded run is never held up and ends with
\* RUN_END.
C30_DegradedStepModeBlocks ==
    sio = "none" =>
       /\ signals = 0 /\ released = 0
       /\ stepMode = "step" =>
             /\ NonFailEnds <= 1
             /\ NonFailEnds = 1 =>
                   /\ pc = "wait" /\ ~continue_event
                   /\ LastType = "STEP_END"
                   /\ ~ENABLED ListenerNext
       /\ stepMode = "all" =>
             /\ pc # "wait"
             /\ pc = "run" => ENABLED Callback
             /\ pc = "done" => LastType = "RUN_END"

\* a degraded run under step mode stands in the gate wait of its first step
C30_Witness ==
    /\ sio = "none" /\ stepMode = "step"
    /\ pc = "wait"
    /\ NonFailEnds = 1 /\ LastType = "STEP_END"
    /\ events[Len(events)].raw = "PASS"

(* ---------------------- properties of the host -------------------------- *)

\* the executions of key k whose child process has been spawned and has not exited
Live(k) == {e \in Execs : wkey[e] = k /\ child[e] \in {"alive", "term"}}

\* C1: at most one live execution (a spawned child that has not exited) exists
\* per process key at any instant, for every interleaving of submit requests.
C1_AtMostOneLivePerKey == \A k \in Keys : Cardinality(Live(k)) <= 1

\* this step is executor.stop_robot returning False
StopReturnsFalse ==
    /\ hpc = "st_check"
    /\ IF hop = "sim" THEN hpc' = "sim_create" ELSE resp'.result = "failed"

\* this step is executor.stop_robot returning True
StopReturnsTrue ==
    /\ hpc \in {"st_check2", "st_del"}
    /\ IF hop = "sim" THEN hpc' = "sim_create" ELSE resp'.result = "ok"

\* C8: stop(key) returns false, and changes nothing, when no execution is
\* registered for key (and only then); whenever it returns true the registry
\* holds no entry for key as it returns.
C8_StopContract ==
    [][ /\ (hpc = "st_check" /\ hpc' # hpc /\ ~registered(running_processes, hkey))
            => /\ StopReturnsFalse
               /\ UNCHANGED <<running_processes, child, returncode, cred_dir, wpc>>
        /\ StopReturnsFalse => ~registered(running_processes, hkey)
        /\ StopReturnsTrue => ~registered(running_processes', hkey)
      ]_vars

\* the stop endpoint answers success after stop_robot killed the child and
\* removed the entry
C8_Witness ==
    /\ hpc = "respond"
    /\ resp.op = "stop" /\ resp.result = "ok"
    /\ hproc # 0 /\ returncode[hproc] = <<-9>>
    /\ ~registered(running_processes, resp.key)

\* C9: the stop endpoint never answers "Failed to stop process" because the
\* execution was already gone, whatever the worker does between the endpoint's
\* status lookup and its call of stop_robot.
C9_StopRequestNeverFailsWhenGone ==
    ~(resp.op = "stop" /\ resp.result = "failed")

\* a step of the worker thread of execution e
WorkerStep(e) ==
    \/ setup_connections_dir(e)
    \/ setup_connections_fetch(e)
    \/ run_robot_spawn(e)
    \/ run_robot_register(e)
    \/ run_robot_wait(e)
    \/ run_robot_cleanup(e)
    \/ run_robot_dereg_check(e)
    \/ run_robot_dereg_del(e)

C11_SpawnFailureRegistersNothing ==
    /\ [](\A e \in Execs :
             /\ (wpc[e] = "raised" /\ child[e] = "none") => ~ENABLED WorkerStep(e)
             /\ child[e] = "none" => \A k \in Keys : running_processes[k] # e)
    /\ [][\A e \in Execs :
             (wpc[e] = "spawn" /\ wpc'[e] # "spawn" /\ child'[e] = "none")
                => /\ wpc'[e] = "raised"
                   /\ running_processes' = running_processes
         ]_vars

\* the spawn of a second execution failed while the first one stays registered
C11_Witness ==
    \E e \in Execs, f \in Execs :
       /\ e # f
       /\ wpc[e] = "raised" /\ child[e] = "none"
       /\ running_processes[wkey[e]] = f /\ child[f] = "alive"

\* C12: a failure of the credential provisioning never ends the run: the worker
\* goes on to the spawn with no credential directory, where Popen can be tried;
\* and with no connection keys the worker goes from the directory setup to the
\* spawn without a fetch.
C12_ProvisioningFailureNotFatal ==
    /\ [](\A e \in Execs : wpc[e] = "spawn" => ENABLED run_robot_spawn(e))
    /\ [][\A e \in Execs :
             /\ (wpc[e] \in {"setup", "setup_keys", "fetch"} /\ wpc'[e] # wpc[e])
                   => wpc'[e] \in {"fetch", "spawn"}
             /\ (wpc[e] = "setup" /\ wpc'[e] # wpc[e]) => wpc'[e] = "spawn"
             /\ (wpc[e] = "fetch" /\ wpc'[e] # wpc[e] /\ ~wcreds'[e])
                   => /\ wpc'[e] = "spawn"
                      /\ cred_dir'[wkey[e]] = 0
         ]_vars

\* an execution whose credential fetch failed is registered with a running child
\* and no credential directory
C12_Witness ==
    \E e \in Execs :
       /\ wpc[e] = "wait" /\ ~wcreds[e]
       /\ child[e] = "alive"
       /\ running_processes[wkey[e]] = e
       /\ cred_dir[wkey[e]] = 0

\* C13: a registration never replaces the entry of a live execution: a worker
\* that registers while the key holds an entry whose child has not exited leaves
\* that entry in place.
C13_RegisterNeverReplacesLive ==
    [][\A e \in Execs :
          (wpc[e] = "register" /\ wpc'[e] # "register"
             /\ registered(running_processes, wkey[e])
             /\ child[running_processes[wkey[e]]] \in {"alive", "term"})
          => running_processes'[wkey[e]] = running_processes[wkey[e]]
      ]_vars

\* C14: the status endpoint answers "not_running" exactly when the registry has
\* no entry for the key; otherwise it answers running when the poll of the
\* registered child is unresolved, completed when it is 0, failed when it is any
\* other code, with return_code the poll result; the query changes no entry.
C14_StatusReflectsPoll ==
    [][(hpc = "idle" /\ resp'.op = "status") =>
          LET k == resp'.key
              x == running_processes[k]
          IN  /\ resp'.result = "not_running" <=> x = 0
              /\ x # 0 =>
                    /\ resp'.code = (IF child[x] = "exited" THEN returncode[x] ELSE <<>>)
                    /\ resp'.result = "running" <=> child[x] # "exited"
                    /\ resp'.result = "completed"
                          <=> (child[x] = "exited" /\ returncode[x] = <<0>>)
                    /\ resp'.result = "failed"
                          <=> (child[x] = "exited" /\ returncode[x] # <<0>>)
              /\ UNCHANGED <<running_processes, child, returncode, cred_dir>>
      ]_vars

\* the status of an execution whose child exited with code 1 is asked for before
\* the worker has removed the entry: failed, return code 1
C14_Witness ==
    /\ hpc = "respond" /\ resp.op = "status"
    /\ resp.result = "failed" /\ resp.code = <<1>>
    /\ registered(running_processes, resp.key)

\* C23: stop_robot sends terminate first; kill is sent only by the wait that
\* timed out on a child that was sent terminate and has not exited, never
\* otherwise; a wait that finds the child exited sends nothing; and when kill
\* fails stop_robot does not return (the caller gets the error, not True).
C23_TerminateThenKill ==
    [][ /\ \A e \in Execs :
              (returncode'[e] = <<-9>> /\ returncode[e] # <<-9>>)
                 => (hpc = "st_wait" /\ hproc = e /\ child[e] = "term")
        /\ (hpc = "st_term" /\ hpc' # hpc)
              => /\ hpc' = "st_wait"
                 /\ returncode' = returncode
                 /\ child[hproc] = "alive" => child'[hproc] = "term"
        /\ (hpc = "st_wait" /\ hpc' # hpc /\ child[hproc] = "exited")
              => UNCHANGED <<child, returncode>>
        /\ (hpc = "st_wait" /\ hpc' # hpc /\ child[hproc] # "exited"
              /\ child'[hproc] # "exited")
              => /\ hpc' = "respond"
                 /\ resp'.result = "kill_error"
                 /\ UNCHANGED running_processes
      ]_vars

\* the stop endpoint answers 500 after the kill of a child that ignored the
\* terminate failed; the entry is still registered
C23_Witness ==
    /\ hpc = "respond" /\ resp.op = "stop" /\ resp.result = "kill_error"
    /\ child[hproc] = "term"
    /\ running_processes[resp.key] = hproc

\* C24: stop_robot and the worker's completion cleanup of the same key both end
\* without an exception, in every interleaving: no worker ends with the
\* KeyError of its del, and no request ends with the KeyError of stop_robot.
C24_RegistryOpsAtomic ==
    /\ \A e \in Execs : ~(wpc[e] = "raised" /\ child[e] = "exited")
    /\ resp.result # "error"

\* C28: the completion cleanup of a worker never removes the registry entry of
\* another execution whose child has not exited.
C28_WorkerRemovesOwnEntryOnly ==
    [][\A e \in Execs :
          (wpc[e] = "del" /\ wpc'[e] = "done")
             => ~(\E f \in Execs :
                     /\ f # e
                     /\ running_processes[wkey[e]] = f
                     /\ child[f] \in {"alive", "term"}
                     /\ running_processes'[wkey[e]] # f)
      ]_vars

\* C29: while the child of an execution that was given a credential directory
\* has not exited, the directory of its key is the one made for it.
C29_CredentialDirWhileAlive ==
    \A e \in Execs :
       (child[e] \in {"alive", "term"} /\ wcreds[e]) => cred_dir[wkey[e]] = e

(* ---------------------- properties of the runner ------------------------ *)

RECURSIVE unescaped(_)
\* the payload string with the backslash before every "${", "@{", "&{" taken off
unescaped(t) ==
    IF Len(t) = 0 THEN t
    ELSE IF Len(t) >= 3 /\ t[1] = "\\" /\ t[2] \in {"$", "@", "&"} /\ t[3] = "{"
         THEN <<t[2], "{">> \o unescaped(SubSeq(t, 4, Len(t)))
         ELSE <<t[1]>> \o unescaped(Tail(t))

RECURSIVE loads_text(_)
\* json.loads of the inside of a JSON string over these characters
loads_text(t) ==
    IF Len(t) = 0 THEN t
    ELSE IF Len(t) >= 2 /\ t[1] = "\\"
         THEN <<t[2]>> \o loads_text(SubSeq(t, 3, Len(t)))
         ELSE <<t[1]>> \o loads_text(Tail(t))

RECURSIVE read_body(_)
\* the list of nodes a receiver reads out of a serialised body
read_body(body) ==
    [n \in 1..Len(body) |->
        [type |-> body[n].type, name |-> body[n].name,
         args |-> [a \in 1..Len(body[n].args) |->
                      loads_text(unescaped(body[n].args[a]))],
         assign |-> [a \in 1..Len(body[n].assign) |->
                        loads_text(unescaped(body[n].assign[a]))],
         body |-> read_body(body[n].body),
         branches |-> [b \in 1..Len(body[n].branches) |->
                          [body |-> read_body(body[n].branches[b].body)]]]]

\* the positions of a body that hold a node of the given type / name
OfType(body, type) == {n \in 1..Len(body) : body[n].type = type}
Named(body, name) == {n \in 1..Len(body) : body[n].name = name}

\* C15: in the document handed over after a rewrite, every PARALLEL block of a
\* test body has become one Run Parallel call at its position (as many calls as
\* blocks); the call of a block with B branches carries B entries named Branch_1
\* .. Branch_B in declared order, and the body read back from the i-th entry is
\* the body of the i-th branch.
C15_BlocksBecomeRunParallel ==
    (tpc = "transformed" /\ runs = 1) =>
       \A t \in 1..Len(json_file.tests) :
          LET in == json_file.tests[t].body
              out == target.tests[t].body
          IN  /\ Len(out) = Len(in)
              /\ Named(out, "Run Parallel") = OfType(in, "PARALLEL")
              /\ \A n \in OfType(in, "PARALLEL") :
                    LET entries == out[n].args[1]
                    IN  /\ Len(entries) = Len(in[n].branches)
                        /\ \A i \in 1..Len(entries) :
                              /\ entries[i].name = <<"Branch_", i>>
                              /\ read_body(entries[i].body) = in[n].branches[i].body

\* a body of two blocks, the second with two different branches, was rewritten
C15_Witness ==
    /\ tpc = "transformed" /\ runs = 1
    /\ LET in == json_file.tests[1].body
       IN  /\ Len(in) = 2
           /\ in[1].type = "PARALLEL" /\ Len(in[1].branches) = 1
           /\ in[2].type = "PARALLEL" /\ Len(in[2].branches) = 2
           /\ in[2].branches[1].body # in[2].branches[2].body
    /\ Cardinality(Named(target.tests[1].body, "Run Parallel")) = 2

RECURSIVE BlockAnywhere(_)
\* a PARALLEL block is a node of the body or lies inside one of its nodes
BlockAnywhere(body) ==
    \E n \in 1..Len(body) :
       \/ body[n].type = "PARALLEL"
       \/ BlockAnywhere(body[n].body)
       \/ \E b \in 1..Len(body[n].branches) : BlockAnywhere(body[n].branches[b].body)

\* C16: the runner hands over a rewritten document exactly when some test body
\* of the file holds a PARALLEL block at any depth; otherwise it hands over the
\* file as it is, and a run on a document that a run before handed over hands
\* it over as it is.
C16_RewrittenIffBlockAnywhere ==
    tpc \in {"transformed", "direct"} =>
       /\ tpc = "transformed"
             <=> \E t \in 1..Len(json_file.tests) : BlockAnywhere(json_file.tests[t].body)
       /\ tpc = "direct" => target = json_file
       /\ runs > 1 => tpc = "direct"

\* C17: after a rewrite every node of the input body that is not a PARALLEL
\* block stands unchanged, with all its fields, at its position of the output
\* body, and the output body is as long as the input body.
C17_OtherNodesUnchanged ==
    (tpc = "transformed" /\ runs = 1) =>
       \A t \in 1..Len(json_file.tests) :
          LET in == json_file.tests[t].body
              out == target.tests[t].body
          IN  /\ Len(out) = Len(in)
              /\ \A n \in 1..Len(in) :
                    in[n].type # "PARALLEL" => out[n] = in[n]

\* C18: the import list of a rewritten document names RPA.Parallel exactly once.
C18_OneParallelImport ==
    tpc = "transformed" =>
       Cardinality({i \in 1..Len(target.imports) :
                       target.imports[i].name = "RPA.Parallel"}) = 1

\* C31: a call of transform_json leaves the document it was given as it was:
\* its import entries, its variables and its test bodies are the same after
\* the call as before it.
C31_InputUnchanged ==
    [][(tpc = "loaded" /\ tpc' = "transformed")
          => /\ input_data'.imports = input_data.imports
             /\ input_data'.variables = input_data.variables
             /\ input_data'.tests = input_data.tests
      ]_vars

(* ------------------- properties of the script file --------------------- *)

\* every credential path of the text lies in the provisioned directory: each
\* devdata prefix is the workspace's and is followed by "process_<id>/" once
PrefixOnce(t) ==
    \A i \in 1..Len(t) :
       t[i] \in {"W", linux_path_prefix}
          => /\ t[i] = local_devdata
             /\ i < Len(t) /\ t[i + 1] = "P"
             /\ i + 1 < Len(t) => t[i + 2] # "P"

\* C25: whenever the spawn step of an execution has rewritten the script file,
\* every credential path in it points into the provisioned directory, the
\* prefix applied exactly once.
C25_PrefixAppliedOnce ==
    [][\A e \in Submits :
          (fpc[e] = "created" /\ fpc'[e] = "patched") => PrefixOnce(robot_file')
      ]_vars

====
